---- MODULE Spec2Model ----
(***************************************************************************)
(* Model of backend/bingo_ws_server.py: the room registry, the per-room    *)
(* state and the WebSocket handler of each connection.  A handler is a     *)
(* coroutine: it runs without interruption from one await to the next, so  *)
(* every action below is the code between two awaits of one handler, up to *)
(* and including the call of the next send.                                *)
(***************************************************************************)
EXTENDS Integers, Sequences, FiniteSets, TLC

\* ------------------------------------------------------------------ bounds
\* The WebSocket objects alive at once; the identity of one that is closed
\* and referenced nowhere is used again for a later connection.
Conns == {1, 2}
\* Room codes generate_room_code can return.
Codes == {"R"}
\* The room objects alive at once (a room deleted from the registry lives on
\* while a handler holds it); an unreachable one is used again by create_room.
RoomIds == {1, 2}
\* What the clients do in one run: rooms created, connections opened,
\* messages sent, connections dropped.
MaxInputs == 6
\* Display names a client sends; "" is a falsy name.
Names == {"A", "B", ""}
\* The "number" values a client sends (opaque JSON values).
Numbers == {"7", "12"}

\* Python's None, and a key missing from the JSON message.
None == "<None>"
Missing == "<missing>"
\* The placeholder name of lines 82, 90, 198, 230, 268.
Unknown == "Unknown"

\* Python truthiness of a name or of room["winner"].
Truthy(v) == v # None /\ v # ""

VARIABLES
  rooms,     \* the registry: code -> room object
  store,     \* the room objects (dicts), by object identity
  inputs,    \* the requests and messages of the clients since the first state
  pc,        \* each handler's position
  room_id,   \* each handler's room_id argument
  room,      \* each handler's local "room" (a room object)
  stage,     \* the event a handler is fanning out
  todo,      \* the rest of the snapshot list(room["players"].keys())
  arg,       \* the handler's locals used in its events
  sent,      \* the sends of the handler for the message it is handling
  raised     \* whether the send the handler awaits raises

vars == <<rooms, store, inputs, pc, room_id, room, stage, todo, arg, sent,
          raised>>

\* ------------------------------------------------------------ room objects
\* The handler's locals player_name, number, expected and
\* current_player / next_player.
Locals(player, number, expected, cur) ==
  [player |-> player, number |-> number, expected |-> expected, cur |-> cur]

NoArg == Locals(None, None, None, None)

\* list(d.keys()) of the ordered dict players, a sequence of [ws, name].
Keys(players) == [i \in 1 .. Len(players) |-> players[i].ws]

HasKey(players, ws) == \E i \in 1 .. Len(players) : players[i].ws = ws

\* players.get(ws, default)
Get(players, ws, default) ==
  IF HasKey(players, ws)
  THEN players[CHOOSE i \in 1 .. Len(players) : players[i].ws = ws].name
  ELSE default

\* players[ws] = name: a present key keeps its place, a new one goes last.
Put(players, ws, name) ==
  IF HasKey(players, ws)
  THEN [i \in 1 .. Len(players) |->
          IF players[i].ws = ws THEN [ws |-> ws, name |-> name] ELSE players[i]]
  ELSE Append(players, [ws |-> ws, name |-> name])

\* The sequence without the elements equal to x (the loops skip the sender).
Without(seq, x) == SelectSeq(seq, LAMBDA y : y # x)

\* players.pop(ws, ...): the dict after the pop.
Pop(players, ws) == SelectSeq(players, LAMBDA e : e.ws # ws)

\* player_names is a dict name -> ws (its key order is not modelled).
NoNames == [n \in {} |-> 0]

HasName(player_names, name) == name \in DOMAIN player_names

PutName(player_names, name, ws) ==
  [n \in DOMAIN player_names \cup {name} |->
     IF n = name THEN ws ELSE player_names[n]]

DelName(player_names, name) ==
  [n \in DOMAIN player_names \ {name} |-> player_names[n]]

NewRoom ==
  [ players        |-> << >>,
    player_names   |-> NoNames,
    numbers_drawn  |-> {},
    winner         |-> None,
    turn_order     |-> << >>,
    turn_index     |-> 0,
    phase          |-> "waiting" ]

\* x in list
InSeq(x, seq) == \E i \in 1 .. Len(seq) : seq[i] = x

\* list.index(x), 0-based, of a present x
IndexOf(x, seq) == (CHOOSE i \in 1 .. Len(seq) :
                      seq[i] = x /\ \A j \in 1 .. i - 1 : seq[j] # x) - 1

\* list.remove(x): the list without the first occurrence of x
RemoveFirst(x, seq) ==
  LET k == IndexOf(x, seq) + 1
  IN  [i \in 1 .. Len(seq) - 1 |-> IF i < k THEN seq[i] ELSE seq[i + 1]]

\* room["turn_order"][room["turn_index"]] if room["turn_order"] else None
CurrentPlayer(R) ==
  IF R.turn_order # << >> THEN R.turn_order[R.turn_index + 1] ELSE None

\* ------------------------------------------------- the handler's decisions
\* line 90: data.get("name", "Unknown")
JoinName(p) == IF p = Missing THEN Unknown ELSE p

\* line 92: player_name in room["player_names"]
NameTaken(R, name) == HasName(R.player_names, name)

\* lines 98-102: the room after an accepted join
Joined(R, ws, name) ==
  [R EXCEPT !.players      = Put(@, ws, name),
            !.player_names = PutName(@, name, ws),
            !.turn_order   = IF R.phase = "waiting" THEN Append(@, name) ELSE @]

MarkIgnored_Unjoined(R, ws, number) ==
  \/ Truthy(R.winner)
  \/ number = Missing
  \/ Get(R.players, ws, None) \in {None, "", Unknown}

\* lines 135-142: the mark_number messages dropped with a bare continue
MarkIgnored(R, ws, number) ==
  \/ Truthy(R.winner)
  \/ number = Missing
  \/ ~Truthy(Get(R.players, ws, None))

\* lines 144-145
Started(R) == [R EXCEPT !.phase = IF @ = "waiting" THEN "active" ELSE @]

\* lines 147-149
OutOfTurn(R, name) == R.turn_order # << >> /\ name # CurrentPlayer(R)

\* line 161
Drawn(R, number) == number \in R.numbers_drawn

Verdict_NumberFirst(R, name, number) ==
  IF Drawn(R, number) THEN "Number already drawn"
  ELSE IF OutOfTurn(R, name) THEN "Not your turn"
  ELSE "accept"

Verdict_NoDuplicateCheck(R, name, number) ==
  IF OutOfTurn(R, name) THEN "Not your turn" ELSE "accept"

\* lines 147-170: the turn is checked before the number
Verdict(R, name, number) ==
  IF OutOfTurn(R, name) THEN "Not your turn"
  ELSE IF Drawn(R, number) THEN "Number already drawn"
  ELSE "accept"

\* line 171
Marked(R, number) == [R EXCEPT !.numbers_drawn = @ \cup {number}]

\* line 183
CanAdvance(R) ==
  R.turn_order # << >> /\ R.phase = "active" /\ ~Truthy(R.winner)

\* line 184
Advanced(R) ==
  [R EXCEPT !.turn_index = (@ + 1) % Len(R.turn_order)]

Declared_KeepsPhase(R, ws) ==
  IF ~Truthy(R.winner)
  THEN [R EXCEPT !.winner = Get(R.players, ws, Unknown)]
  ELSE R

\* lines 197-199
Declared(R, ws) ==
  IF ~Truthy(R.winner)
  THEN [R EXCEPT !.winner = Get(R.players, ws, Unknown), !.phase = "finished"]
  ELSE R

ResetRoom_ClearsOrder(R) ==
  [R EXCEPT !.numbers_drawn = {}, !.winner = None, !.turn_order = << >>,
            !.turn_index = 0, !.phase = "waiting"]

\* lines 211-214
ResetRoom(R) ==
  [R EXCEPT !.numbers_drawn = {}, !.winner = None,
            !.turn_index = 0, !.phase = "waiting"]

\* lines 235-240: the turn order without the leaver, the pointer clamped
Repaired(R, name) ==
  IF InSeq(name, R.turn_order)
  THEN LET order == RemoveFirst(name, R.turn_order)
       IN  [R EXCEPT !.turn_order = order,
                     !.turn_index = IF @ >= Len(order) THEN 0 ELSE @]
  ELSE R

\* lines 230-232 and 268-270: the membership without the connection
Unbound(R, ws) ==
  LET name == Get(R.players, ws, Unknown)
  IN  [R EXCEPT !.players      = Pop(@, ws),
                !.player_names = IF HasName(@, name) THEN DelName(@, name) ELSE @]

\* lines 230-240: the room after the except WebSocketDisconnect block's edits
Left(R, ws) == Repaired(Unbound(R, ws), Get(R.players, ws, Unknown))

Faulted_DropsNameUnclamped(R, ws) ==
  LET name == Get(R.players, ws, Unknown)
      U    == Unbound(R, ws)
  IN  IF InSeq(name, U.turn_order)
      THEN [U EXCEPT !.turn_order = RemoveFirst(name, @)]
      ELSE U

\* lines 268-270: the room after the except Exception block's edits
Faulted(R, ws) == Unbound(R, ws)

\* ------------------------------------------------------------------ events
\* One send_json call: the recipient, the message's type and two of its
\* fields.
Event(type, to, a, b) == [to |-> to, type |-> type, a |-> a, b |-> b]

\* The message a fan-out of event st sends, built when send_json is called:
\* from the handler's locals (loc) and the room as it is then (R).
Payload(st, to, loc, R) ==
  CASE st = "player_joined" -> Event(st, to, loc.player, loc.cur)
    [] st = "mark_number"   -> Event(st, to, loc.number, loc.player)
    [] st = "next_turn"     -> Event(st, to, loc.cur, None)
    [] st = "winner"        -> Event(st, to, R.winner, R.phase)
    [] st = "reset"         -> Event(st, to, CurrentPlayer(R), R.phase)
    [] st = "player_left"   -> Event(st, to, loc.player, loc.cur)

\* lines 109-117: the keys of the state reply to an accepted join.  The
\* handler reads only data.get("name") of a join (line 90): no other field
\* of the message, such as a playerId, reaches the room or the reply.
StateReplyKeys ==
  {"type", "numbers_drawn", "winner", "players", "turn_order",
   "current_player", "phase"}

\* Fan-outs with code after their loop: lines 183 and 262.
Continued == {"mark_number", "player_left"}

\* -------------------------------------------------------------------- Init
Init ==
  /\ rooms = [k \in {} |-> 0]
  /\ store = [r \in RoomIds |-> NewRoom]
  /\ inputs = 0
  /\ pc = [c \in Conns |-> "new"]
  /\ room_id = [c \in Conns |-> None]
  /\ room = [c \in Conns |-> 0]
  /\ stage = [c \in Conns |-> None]
  /\ todo = [c \in Conns |-> << >>]
  /\ arg = [c \in Conns |-> NoArg]
  /\ sent = [c \in Conns |-> << >>]
  /\ raised = [c \in Conns |-> FALSE]

\* The handler's own variables after a step.
Local(c, p, st, td, loc, log, exc) ==
  /\ pc' = [pc EXCEPT ![c] = p]
  /\ raised' = [raised EXCEPT ![c] = exc]
  /\ stage' = [stage EXCEPT ![c] = st]
  /\ todo' = [todo EXCEPT ![c] = td]
  /\ arg' = [arg EXCEPT ![c] = loc]
  /\ sent' = [sent EXCEPT ![c] = log]

\* for client in snap: try: await client.send_json(...) -- up to the first
\* await: the first send is called, or the loop is empty.
FanOutFrom(c, st, snap, loc, R, log, ok) ==
  IF snap = << >>
  THEN Local(c, "done", st, << >>, loc, log, FALSE)
  ELSE Local(c, IF Tail(snap) = << >> /\ st \notin Continued
                THEN "done" ELSE "bcast",
             st, Tail(snap), loc,
             Append(log, Payload(st, Head(snap), loc, R)), ~ok)

\* A reply to the sender alone, outside any try (lines 93, 109, 227): a
\* send that raises leaves the handler with an exception to handle.
Reply(c, p, ev, loc, ok) ==
  Local(c, IF ok THEN p ELSE "failed", None, << >>, loc, <<ev>>, ~ok)

\* A message is taken from the connection: receive_json returns.
Input == inputs < MaxInputs /\ inputs' = inputs + 1

Receives(c) == pc[c] = "recv" /\ Input

\* ---------------------------------------------------------------- actions
\* A room object is reachable from the registry or from a handler's local.
Reachable(r, locals) ==
  \/ \E k \in DOMAIN rooms : rooms[k] = r
  \/ \E c \in Conns : locals[c] = r

\* lines 46-59
CreateRoom ==
  /\ Input
  /\ \E code \in Codes \ DOMAIN rooms, r \in RoomIds :
       /\ ~Reachable(r, room)
       /\ \A q \in RoomIds : q < r => Reachable(q, room)
       /\ rooms' = [k \in DOMAIN rooms \cup {code} |->
                     IF k = code THEN r ELSE rooms[k]]
       /\ store' = [store EXCEPT ![r] = NewRoom]
  /\ UNCHANGED <<pc, room_id, room, stage, todo, arg, sent, raised>>

\* A WebSocket object that no dict, snapshot or handler refers to any more.
Unreferenced(c) ==
  /\ pc[c] \in {"new", "closed", "crashed", "rejected"}
  /\ \A d \in Conns : ~InSeq(c, todo[d])
  /\ \A r \in RoomIds :
       /\ ~HasKey(store[r].players, c)
       /\ \A n \in DOMAIN store[r].player_names : store[r].player_names[n] # c

\* lines 74-79: the room is looked up, then the handler awaits accept()
Open(c) ==
  /\ Input
  /\ Unreferenced(c)
  /\ \A d \in Conns : d < c => ~Unreferenced(d)
  /\ \E code \in Codes :
       /\ room_id' = [room_id EXCEPT ![c] = code]
       /\ pc' = [pc EXCEPT ![c] = IF code \in DOMAIN rooms
                                  THEN "accepting" ELSE "rejected"]
  /\ UNCHANGED <<rooms, store, room, stage, todo, arg, sent, raised>>

\* lines 81-86: after accept() the room is looked up again (a KeyError when
\* it is gone) and the connection is registered under the placeholder name
Accept(c) ==
  /\ pc[c] = "accepting"
  /\ IF room_id[c] \in DOMAIN rooms
     THEN LET r == rooms[room_id[c]]
          IN  /\ room' = [room EXCEPT ![c] = r]
              /\ store' = [store EXCEPT ![r].players = Put(@, c, Unknown)]
              /\ pc' = [pc EXCEPT ![c] = "recv"]
     ELSE /\ pc' = [pc EXCEPT ![c] = "crashed"]
          /\ UNCHANGED <<room, store>>
  /\ UNCHANGED <<rooms, inputs, room_id, stage, todo, arg, sent, raised>>

\* lines 89-117: a join message, up to the reply to the sender
JoinMsg(c, p, ok) ==
  /\ Receives(c)
  /\ LET name == JoinName(p)
         R    == store[room[c]]
         R2   == Joined(R, c, name)
     IN  IF NameTaken(R, name)
         THEN /\ Reply(c, "done",
                       Event("error", c, "Name already taken in this room", None),
                       Locals(name, None, None, None), ok)
              /\ UNCHANGED store
         ELSE /\ store' = [store EXCEPT ![room[c]] = R2]
              /\ Reply(c, "joined",
                       Event("state", c, CurrentPlayer(R2), R2.phase),
                       Locals(name, None, None, CurrentPlayer(R2)), ok)
  /\ UNCHANGED <<rooms, room_id, room>>

Join(c) == \E p \in Names \cup {Missing}, ok \in BOOLEAN : JoinMsg(c, p, ok)

\* lines 119-132: after the state reply, the others are notified
NotifyOthers(c) ==
  /\ pc[c] = "joined"
  /\ \E ok \in BOOLEAN :
       LET R    == store[room[c]]
           snap == Without(Keys(R.players), c)
       IN  FanOutFrom(c, "player_joined", snap, arg[c], R, sent[c], ok)
  /\ UNCHANGED <<rooms, store, inputs, room_id, room>>

Rest_StopOnRaise(c) == IF raised[c] THEN << >> ELSE todo[c]

\* The recipients a fan-out loop still sends to when the send it awaited
\* has returned or raised: the except of lines 131, 180, 193, 207, 223 and
\* 259 only prints, and the loop goes on.
Rest(c) == todo[c]

\* The next send of a fan-out loop (lines 119, 173, 186, 200, 215, 249).
FanOut(c) ==
  /\ pc[c] = "bcast"
  /\ todo[c] # << >>
  /\ \E ok \in BOOLEAN :
       FanOutFrom(c, stage[c], Rest(c), arg[c], store[room[c]], sent[c], ok)
  /\ UNCHANGED <<rooms, store, inputs, room_id, room>>

\* lines 134-181: a mark_number message, up to its first send
MarkNumberMsg(c, number, ok) ==
  /\ Receives(c)
  /\ LET R    == store[room[c]]
         name == Get(R.players, c, None)
         R1   == Started(R)
         R2   == Marked(R1, number)
         loc  == Locals(name, number, CurrentPlayer(R1), None)
         v    == Verdict(R1, name, number)
     IN  IF MarkIgnored(R, c, number)
         THEN UNCHANGED <<store, pc, stage, todo, arg, sent, raised>>
         ELSE IF v = "accept"
         THEN /\ store' = [store EXCEPT ![room[c]] = R2]
              /\ FanOutFrom(c, "mark_number", Keys(R2.players), loc, R2,
                            << >>, ok)
         ELSE /\ store' = [store EXCEPT ![room[c]] = R1]
              /\ Local(c, "done", None, << >>, loc,
                       <<Event("invalid_move", c, v, CurrentPlayer(R1))>>, ~ok)
  /\ UNCHANGED <<rooms, room_id, room>>

MarkNumber(c) ==
  \E number \in Numbers \cup {Missing}, ok \in BOOLEAN :
    MarkNumberMsg(c, number, ok)

\* lines 183-194: after the mark_number fan-out, the turn moves on
AdvanceTurn(c) ==
  /\ pc[c] = "bcast"
  /\ stage[c] = "mark_number"
  /\ todo[c] = << >>
  /\ \E ok \in BOOLEAN :
       LET R  == store[room[c]]
           R2 == Advanced(R)
       IN  IF CanAdvance(R)
           THEN /\ store' = [store EXCEPT ![room[c]] = R2]
                /\ FanOutFrom(c, "next_turn", Keys(R2.players),
                              [arg[c] EXCEPT !.cur = CurrentPlayer(R2)],
                              R2, sent[c], ok)
           ELSE /\ Local(c, "done", stage[c], << >>, arg[c], sent[c], FALSE)
                /\ UNCHANGED store
  /\ UNCHANGED <<rooms, inputs, room_id, room>>

\* lines 196-208: a winner message, up to its first send
Winner(c) ==
  /\ Receives(c)
  /\ \E ok \in BOOLEAN :
       LET R2 == Declared(store[room[c]], c)
       IN  /\ store' = [store EXCEPT ![room[c]] = R2]
           /\ FanOutFrom(c, "winner", Keys(R2.players), NoArg, R2, << >>, ok)
  /\ UNCHANGED <<rooms, room_id, room>>

\* lines 210-224: a reset message, up to its first send
Reset(c) ==
  /\ Receives(c)
  /\ \E ok \in BOOLEAN :
       LET R2 == ResetRoom(store[room[c]])
       IN  /\ store' = [store EXCEPT ![room[c]] = R2]
           /\ FanOutFrom(c, "reset", Keys(R2.players), NoArg, R2, << >>, ok)
  /\ UNCHANGED <<rooms, room_id, room>>

\* lines 226-227
Heartbeat(c) ==
  /\ Receives(c)
  /\ \E ok \in BOOLEAN :
       Reply(c, "done", Event("heartbeat_ack", c, None, None), NoArg, ok)
  /\ UNCHANGED <<rooms, store, room_id, room>>

\* lines 262-263 and 271-272: if not room["players"]: del rooms[room_id].
\* The del raises KeyError inside the except block when the code is gone.
DeleteIfEmpty(c, R) ==
  IF R.players # << >>
  THEN "exit"
  ELSE IF room_id[c] \in DOMAIN rooms THEN "deleted" ELSE "crashed"

Registry(c, outcome) ==
  IF outcome = "deleted"
  THEN [k \in DOMAIN rooms \ {room_id[c]} |-> rooms[k]]
  ELSE rooms

Exit(outcome) == IF outcome = "crashed" THEN "crash" ELSE "exit"

\* lines 229-260: WebSocketDisconnect, raised by receive_json when the
\* client has gone or by a reply to the sender; up to the first send
Disconnect(c) ==
  /\ \/ Receives(c)
     \/ pc[c] = "failed" /\ UNCHANGED inputs
  /\ \E ok \in BOOLEAN :
       LET R    == store[room[c]]
           R2   == Left(R, c)
           snap == Keys(R2.players)
           out  == DeleteIfEmpty(c, R2)
           loc  == Locals(Get(R.players, c, Unknown), None, None,
                          CurrentPlayer(R2))
       IN  /\ store' = [store EXCEPT ![room[c]] = R2]
           /\ IF snap = << >>
              THEN /\ Local(c, Exit(out), "player_left", << >>, loc, << >>, FALSE)
                   /\ rooms' = Registry(c, out)
              ELSE /\ FanOutFrom(c, "player_left", snap, loc, R2, << >>, ok)
                   /\ UNCHANGED rooms
  /\ UNCHANGED <<room_id, room>>

\* lines 261-265: after the player_left fan-out
Cleanup(c) ==
  /\ pc[c] = "bcast"
  /\ stage[c] = "player_left"
  /\ todo[c] = << >>
  /\ LET out == DeleteIfEmpty(c, store[room[c]])
     IN  /\ rooms' = Registry(c, out)
         /\ Local(c, Exit(out), stage[c], << >>, arg[c], sent[c], FALSE)
  /\ UNCHANGED <<store, inputs, room_id, room>>

\* lines 266-273: any other exception, raised by receive_json on a
\* malformed message or by a reply to the sender
Fault(c) ==
  /\ \/ Receives(c)
     \/ pc[c] = "failed" /\ UNCHANGED inputs
  /\ LET R2  == Faulted(store[room[c]], c)
         out == DeleteIfEmpty(c, R2)
     IN  /\ store' = [store EXCEPT ![room[c]] = R2]
         /\ rooms' = Registry(c, out)
         /\ Local(c, Exit(out), "fault", << >>, NoArg, << >>, FALSE)
  /\ UNCHANGED <<room_id, room>>

\* The handler returns to receive_json (line 86), returns for good, or ends
\* with the KeyError.  None of these touches the rooms, so it is taken at once.
Ending == {"done", "exit", "crash"}

Finish(c) ==
  /\ pc[c] \in Ending
  /\ Local(c, CASE pc[c] = "done" -> "recv"
               [] pc[c] = "exit" -> "closed"
               [] pc[c] = "crash" -> "crashed",
           None, << >>, NoArg, << >>, FALSE)
  /\ room' = [room EXCEPT ![c] = IF pc[c] = "done" THEN @ ELSE 0]
  /\ room_id' = [room_id EXCEPT ![c] = IF pc[c] = "done" THEN @ ELSE None]
  /\ store' = [r \in RoomIds |->
                IF Reachable(r, room') THEN store[r] ELSE NewRoom]
  /\ UNCHANGED <<rooms, inputs>>

\* No handler is in the middle of returning.
Quiet == \A c \in Conns : pc[c] \notin Ending

Next ==
  \/ \E c \in Conns : Finish(c)
  \/ Quiet /\ CreateRoom
  \/ Quiet /\ \E c \in Conns : Open(c)
  \/ Quiet /\ \E c \in Conns : Accept(c)
  \/ Quiet /\ \E c \in Conns : Join(c)
  \/ Quiet /\ \E c \in Conns : NotifyOthers(c)
  \/ Quiet /\ \E c \in Conns : FanOut(c)
  \/ Quiet /\ \E c \in Conns : MarkNumber(c)
  \/ Quiet /\ \E c \in Conns : AdvanceTurn(c)
  \/ Quiet /\ \E c \in Conns : Winner(c)
  \/ Quiet /\ \E c \in Conns : Reset(c)
  \/ Quiet /\ \E c \in Conns : Heartbeat(c)
  \/ Quiet /\ \E c \in Conns : Disconnect(c)
  \/ Quiet /\ \E c \in Conns : Cleanup(c)
  \/ Quiet /\ \E c \in Conns : Fault(c)

Spec == Init /\ [][Next]_vars

\* A room in mid-session, as create_room and three accepted joins leave it
\* (lines 46-59, 81-82, 98-102): connection 1 has joined as "A", connection 2
\* as "B" and then again without a name; both handlers wait in receive_json.
SessionRoom ==
  Joined(Joined(Joined([NewRoom EXCEPT !.players =
                          Put(Put(@, 1, Unknown), 2, Unknown)],
                       1, "A"), 2, "B"), 2, JoinName(Missing))

InitSession ==
  /\ rooms = [k \in Codes |-> 1]
  /\ store = [r \in RoomIds |-> IF r = 1 THEN SessionRoom ELSE NewRoom]
  /\ inputs = 0
  /\ pc = [c \in Conns |-> "recv"]
  /\ room_id = [c \in Conns |-> CHOOSE k \in Codes : TRUE]
  /\ room = [c \in Conns |-> 1]
  /\ stage = [c \in Conns |-> None]
  /\ todo = [c \in Conns |-> << >>]
  /\ arg = [c \in Conns |-> NoArg]
  /\ sent = [c \in Conns |-> << >>]
  /\ raised = [c \in Conns |-> FALSE]

\* The same handlers, started from the session in progress.
SpecSession == InitSession /\ [][Next]_vars

\* ------------------------------------------------------------------ claims
\* The room a bound connection's handler works on, and the connection's
\* entry in it.
TheRoom(c) == store[room[c]]
NameOf(c) == Get(TheRoom(c).players, c, None)

\* A mark_number with a number, from a connection whose name is not the
\* name at turn_order[turn_index] of a non-empty turn order.
OutOfTurnMark(c, number, ok) ==
  /\ MarkNumberMsg(c, number, ok)
  /\ TheRoom(c).turn_order # << >>
  /\ NameOf(c) # TheRoom(c).turn_order[TheRoom(c).turn_index + 1]

\* What C1 promises of such a message: the numbers drawn and the turn index
\* stay, and the one send of the step is an invalid_move "Not your turn"
\* naming the expected player, to the sender.
Rejected(c) ==
  /\ store'[room[c]].numbers_drawn = TheRoom(c).numbers_drawn
  /\ store'[room[c]].turn_index = TheRoom(c).turn_index
  /\ pc'[c] = "done"
  /\ sent'[c] = <<Event("invalid_move", c, "Not your turn",
                        TheRoom(c).turn_order[TheRoom(c).turn_index + 1])>>
  /\ \A d \in Conns \ {c} : sent'[d] = sent[d]

RejectsMark(c) ==
  /\ pc[c] = "recv"
  /\ pc'[c] = "done"
  /\ sent'[c] # << >>
  /\ sent'[c][1].type = "invalid_move"

\* C2 as stated: a rejected mark_number (out of turn or duplicate number)
\* leaves the phase and every other field of the room as before.
C2_RejectedMarkKeepsRoom ==
  [][\A c \in Conns : RejectsMark(c) => store' = store]_vars

\* The handler of c has finished a mark_number it accepted as the current
\* player's.
MarkDone(c) ==
  /\ pc[c] = "done"
  /\ stage[c] \in {"mark_number", "next_turn"}
  /\ arg[c].expected = arg[c].player

\* C3 as stated: every accepted mark_number of the current player is
\* followed by the turn moving on: the actor is sent the mark_number event
\* and then a next_turn event.
C3_MarkThenNextTurn ==
  \A c \in Conns :
    MarkDone(c) =>
      \E i, j \in 1 .. Len(sent[c]) :
        /\ i < j
        /\ sent[c][i].type = "mark_number" /\ sent[c][i].to = c
        /\ sent[c][j].type = "next_turn" /\ sent[c][j].to = c

\* C4 as stated: the first winner declaration of a round sets winner to the
\* declarer's name and the phase to finished; a later one (the phase is
\* finished already) leaves winner unchanged.
C4_FirstDeclarationWins ==
  [][\A c \in Conns :
       Winner(c) =>
         IF TheRoom(c).phase = "finished"
         THEN store'[room[c]].winner = TheRoom(c).winner
         ELSE /\ store'[room[c]].winner = NameOf(c)
              /\ store'[room[c]].phase = "finished"]_vars

\* C5: a reset, in any phase, leaves numbers_drawn empty, winner None,
\* turn_index 0 and phase waiting, and turn_order, players and player_names
\* as they were.
C5_ResetKeepsOrderAndMembers ==
  [][\A c \in Conns :
       Reset(c) =>
         /\ store'[room[c]].numbers_drawn = {}
         /\ store'[room[c]].winner = None
         /\ store'[room[c]].turn_index = 0
         /\ store'[room[c]].phase = "waiting"
         /\ store'[room[c]].turn_order = TheRoom(c).turn_order
         /\ store'[room[c]].players = TheRoom(c).players
         /\ store'[room[c]].player_names = TheRoom(c).player_names
         /\ \A r \in RoomIds \ {room[c]} : store'[r] = store[r]]_vars

\* A reset has been handled in the finished phase (another handler is still
\* fanning out the winner), in a room with a turn order and two connections.
C5_Witness ==
  \E c, d \in Conns :
    /\ pc[c] \in {"bcast", "done"}
    /\ stage[c] = "reset"
    /\ pc[d] = "bcast" /\ stage[d] = "winner" /\ room[d] = room[c]
    /\ TheRoom(c).turn_order # << >>
    /\ Len(TheRoom(c).players) > 1
    /\ TheRoom(c).phase = "waiting"
    /\ TheRoom(c).winner = None

\* C6 as stated: turn_order never holds a name twice.
C6_NoDuplicateNames ==
  \A r \in RoomIds :
    \A i, j \in 1 .. Len(store[r].turn_order) :
      store[r].turn_order[i] = store[r].turn_order[j] => i = j

\* C7 as stated: the disconnect of the only connection of a room removes the
\* room from the registry; with others still bound the registry is left
\* alone, the leaver and its name are gone from players, player_names and
\* turn_order, and player_left goes to the remaining connections.
C7_DisconnectCleansUp ==
  [][\A c \in Conns :
       Disconnect(c) =>
         LET name == Get(TheRoom(c).players, c, Unknown)
             R2   == store'[room[c]]
         IN  IF Keys(TheRoom(c).players) = <<c>>
             THEN room_id[c] \notin DOMAIN rooms'
             ELSE /\ rooms' = rooms
                  /\ ~HasKey(R2.players, c)
                  /\ ~HasName(R2.player_names, name)
                  /\ ~InSeq(name, R2.turn_order)
                  /\ sent'[c] = <<Event("player_left", Keys(R2.players)[1],
                                        name, CurrentPlayer(R2))>>
                  /\ todo'[c] = Tail(Keys(R2.players))]_vars

\* C8 as stated: a fault leaves the room as a graceful disconnect of the
\* connection would.
C8_FaultLikeDisconnect ==
  [][\A c \in Conns :
       Fault(c) => store'[room[c]] = Left(TheRoom(c), c)]_vars

\* The handler of c has just answered a join with the error reply.
RejectsJoin(c) ==
  /\ pc[c] = "recv"
  /\ sent'[c] # << >>
  /\ sent'[c][1].type = "error"

\* C9 as stated: a join is rejected only for a name that a connection bound
\* to the room holds now; the rejection changes no room and sends nothing
\* to any other connection.
C9_BlockedOnlyWhileHeld ==
  [][\A c \in Conns :
       RejectsJoin(c) =>
         /\ store' = store
         /\ \A d \in Conns \ {c} : sent'[d] = sent[d]
         /\ \E i \in 1 .. Len(TheRoom(c).players) :
              TheRoom(c).players[i].name = arg'[c].player]_vars

\* The handler of c takes a step.
Steps(c) == pc'[c] # pc[c] \/ sent'[c] # sent[c] \/ todo'[c] # todo[c]

\* C10: when a send of a fan-out has raised and recipients of the snapshot
\* remain, the handler's next step sends the same event to the next of them
\* and keeps the rest, and changes no room.
C10_FanOutSurvivesRaise ==
  [][\A c \in Conns :
       (pc[c] = "bcast" /\ raised[c] /\ todo[c] # << >> /\ Steps(c))
       => /\ Len(sent'[c]) = Len(sent[c]) + 1
          /\ sent'[c][Len(sent'[c])].to = Head(todo[c])
          /\ sent'[c][Len(sent'[c])].type = stage[c]
          /\ todo'[c] = Tail(todo[c])
          /\ store' = store]_vars

\* A send of a fan-out has raised, to a connection still in players, with
\* recipients of the snapshot still to come.
C10_Witness ==
  \E c \in Conns :
    /\ pc[c] = "bcast"
    /\ raised[c]
    /\ todo[c] # << >>
    /\ HasKey(TheRoom(c).players, sent[c][Len(sent[c])].to)

\* The handler of c takes a message of one of the five types.
Handles(c) ==
  Join(c) \/ MarkNumber(c) \/ Winner(c) \/ Reset(c) \/ Heartbeat(c)

\* The step has called one send for the message: a reply to the sender c, or
\* the first send of a fan-out over all the connections in players.
Answered(c) ==
  /\ Len(sent'[c]) = 1
  /\ \/ /\ sent'[c][1].type \in {"invalid_move", "error", "heartbeat_ack", "state"}
        /\ sent'[c][1].to = c
     \/ /\ sent'[c][1].type \in {"mark_number", "winner", "reset"}
        /\ <<sent'[c][1].to>> \o todo'[c] = Keys(store'[room[c]].players)

C12_StateReplyCarriesPlayerId ==
  \A c \in Conns :
    (sent[c] # << >> /\ sent[c][1].type = "state")
      => "playerId" \in StateReplyKeys

\* C13 as stated: while a handler is suspended in the mark_number fan-out
\* with the turn still to be advanced (between its two mutations), no other
\* handler of the same room processes a message or a disconnect.
C13_MutationsBeforeFirstSend ==
  [][\A c, d \in Conns :
       (/\ c # d
        /\ pc[c] = "bcast" /\ stage[c] = "mark_number"
        /\ pc[d] \in {"recv", "failed"} /\ room[d] = room[c]
        /\ CanAdvance(TheRoom(c)))
       => ~(Handles(d) \/ Disconnect(d) \/ Fault(d))]_vars

\* C14 as stated: a room object with a bound connection is in the registry,
\* and no handler has looked up or deleted a code that is not registered
\* (the KeyError of lines 81, 263 and 272).
C14_RegistryMatchesMembership ==
  /\ \A c \in Conns : pc[c] \notin {"crash", "crashed"}
  /\ \A r \in RoomIds :
       store[r].players # << >> => \E k \in DOMAIN rooms : rooms[k] = r

\* C15: a mark_number for a number already in numbers_drawn changes no room,
\* whoever sends it, and the handler has nothing left to do for it.
C15_DuplicateMarkKeepsRoom ==
  [][\A c \in Conns, number \in Numbers, ok \in BOOLEAN :
       (MarkNumberMsg(c, number, ok) /\ number \in TheRoom(c).numbers_drawn)
       => /\ store' = store
          /\ rooms' = rooms
          /\ pc'[c] \in {"recv", "done"}]_vars

\* The current player has marked a number already drawn and was answered
\* "Number already drawn".
C15_Witness ==
  \E c \in Conns :
    /\ pc[c] = "done"
    /\ Len(sent[c]) = 1
    /\ sent[c][1].type = "invalid_move"
    /\ sent[c][1].a = "Number already drawn"
    /\ arg[c].player = arg[c].expected
    /\ arg[c].number \in TheRoom(c).numbers_drawn

\* C16: in every room, a non-empty turn_order has
\* 0 <= turn_index < len(turn_order).
C16_TurnIndexInRange ==
  \A r \in RoomIds :
    store[r].turn_order # << >> =>
      (0 <= store[r].turn_index /\ store[r].turn_index < Len(store[r].turn_order))

\* The player the turn had just moved to (the last of the order) has left
\* while the next_turn naming it is still fanned out: the pointer is back
\* at 0.
C16_Witness ==
  \E c, d \in Conns :
    /\ stage[c] = "player_left" /\ pc[c] = "bcast"
    /\ pc[d] = "bcast" /\ stage[d] = "next_turn" /\ room[d] = room[c]
    /\ arg[d].cur = arg[c].player
    /\ arg[d].cur # arg[d].player
    /\ TheRoom(c).turn_order # << >>
    /\ ~InSeq(arg[c].player, TheRoom(c).turn_order)
    /\ TheRoom(c).turn_index = 0

\* The room object is in the registry or held by a handler after the step.
LiveAfter(r) ==
  \/ \E k \in DOMAIN rooms' : rooms'[k] = r
  \/ \E c \in Conns : room'[c] = r

\* C17: a room whose winner is set is in phase finished, and only a reset
\* moves a room out of phase finished.
C17_WinnerMeansFinished ==
  [][\A r \in RoomIds :
       /\ store'[r].winner # None => store'[r].phase = "finished"
       /\ (/\ store[r].phase = "finished"
           /\ store'[r].phase # "finished"
           /\ LiveAfter(r))
          => \E c \in Conns : room[c] = r /\ Reset(c)]_vars

\* A mark_number has been handled (and rejected) after a winner declaration
\* that left winner falsy: the phase is still finished.
C17_Witness ==
  \E c \in Conns :
    /\ pc[c] = "done"
    /\ sent[c] # << >>
    /\ sent[c][1].type = "invalid_move"
    /\ TheRoom(c).winner # None
    /\ TheRoom(c).phase = "finished"

\* C18 as stated: the disconnect of a connection that never joined (it
\* carries the placeholder name and no name is registered to it) leaves
\* player_names, turn_order and turn_index as they were.
C18_UnjoinedLeavesNoTrace ==
  [][\A c \in Conns :
       (/\ Disconnect(c)
        /\ NameOf(c) = Unknown
        /\ \A n \in DOMAIN TheRoom(c).player_names :
             TheRoom(c).player_names[n] # c)
       => /\ store'[room[c]].player_names = TheRoom(c).player_names
          /\ store'[room[c]].turn_order = TheRoom(c).turn_order
          /\ store'[room[c]].turn_index = TheRoom(c).turn_index]_vars

\* C19 as stated: when a connection whose name is in turn_order but is not
\* the current player's disconnects, the current player is the same name
\* after the disconnect as before.
C19_OthersLeavingKeepsTurn ==
  [][\A c \in Conns :
       (/\ Disconnect(c)
        /\ InSeq(Get(TheRoom(c).players, c, Unknown), TheRoom(c).turn_order)
        /\ Get(TheRoom(c).players, c, Unknown) # CurrentPlayer(TheRoom(c)))
       => CurrentPlayer(store'[room[c]]) = CurrentPlayer(TheRoom(c))]_vars

\* C20 as stated: player_names is the inverse of players: every registered
\* name maps to a currently bound connection that carries it as its name.
C20_NamesInverseOfPlayers ==
  \A r \in RoomIds :
    \A n \in DOMAIN store[r].player_names :
      \E i \in 1 .. Len(store[r].players) :
        /\ store[r].players[i].ws = store[r].player_names[n]
        /\ store[r].players[i].name = n

====
